---- MODULE Spec2Model ----
(***************************************************************************)
(* Model of src/src/evaluator.py: the Evaluator of the key/value cache     *)
(* quantization benchmark.                                                 *)
(*                                                                         *)
(* Numbers.  A Python float is modelled exactly: a rational is the tuple   *)
(* <<n, d>> in lowest terms with d > 0, and the one irrational the code    *)
(* produces, c * sqrt(q), is the tuple <<c_n, c_d, q_n, q_d>>.  None is    *)
(* the empty tuple, Some(i) the one-element tuple <<i>>.                   *)
(***************************************************************************)
EXTENDS Integers, Sequences, FiniteSets, TLC

VARIABLES
    store,           \* the backing file: NoFile, or the JSON list it holds
    config,          \* the arguments of the latest Evaluator(...) call
    ev,              \* the Evaluator object (None when construction failed)
    pc,              \* position of the single thread of control
    cache_file,      \* cached_evaluate's cache_file argument
    cached_results,  \* cached_evaluate's local list
    idx,             \* evaluate's loop index
    result,          \* evaluate's accumulator
    total_tokens,    \* evaluate's token counter
    ret,             \* value returned by cached_evaluate (None before)
    err,             \* exception that left cached_evaluate / __init__
    hit,             \* whether the lookup loop returned
    forwardCalls,    \* model.forward calls since the call began
    quantizeCalls,   \* quantizer.quantize calls since the call began
    renderCalls,     \* draw_cache_insights calls since the call began
    store0,          \* the backing file as it was when the call began
    firstRuns,       \* history: <<fingerprint, result>> of each miss that wrote
    scanIn, scanOut, \* input / output of the choice scan
    attnIn, attnOut, \* input / output of _calc_attention_error
    evalIn, evalOut  \* input / output of evaluate

mainVars == <<store, config, ev, pc, cache_file, cached_results, idx, result,
              total_tokens, ret, err, hit, forwardCalls, quantizeCalls,
              renderCalls, store0, firstRuns>>
scanVars == <<scanIn, scanOut>>
attnVars == <<attnIn, attnOut>>
evalVars == <<evalIn, evalOut>>
vars == <<mainVars, scanVars, attnVars, evalVars>>

None == <<>>
Some(x) == <<x>>

----------------------------------------------------------------------------
(* Exact arithmetic standing for Python's float arithmetic.                *)

Abs(n) == IF n < 0 THEN -n ELSE n

RECURSIVE Gcd(_, _)
Gcd(a, b) == IF b = 0 THEN a ELSE Gcd(b, a % b)

Rat(n, d) ==
    LET g == Gcd(Abs(n), Abs(d))
        s == IF d < 0 THEN -1 ELSE 1
    IN  IF n = 0 THEN <<0, 1>> ELSE <<(s * n) \div g, (s * d) \div g>>

Zero == Rat(0, 1)
One == Rat(1, 1)
RAdd(a, b) == Rat(a[1] * b[2] + b[1] * a[2], a[2] * b[2])
RSub(a, b) == Rat(a[1] * b[2] - b[1] * a[2], a[2] * b[2])
RMul(a, b) == Rat(a[1] * b[1], a[2] * b[2])
RDivInt(a, k) == Rat(a[1], a[2] * k)
RMulInt(a, k) == Rat(a[1] * k, a[2])
RGt(a, b) == a[1] * b[2] > b[1] * a[2]

\* 1.96, the normal quantile of a 95% interval (line 151)
Z95 == Rat(196, 100)

\* c * math.sqrt(q): exactly 0.0 when q is 0, else kept symbolic
TimesSqrt(c, q) == IF q[1] = 0 THEN Zero ELSE <<c[1], c[2], q[1], q[2]>>

----------------------------------------------------------------------------
(* EvaluationResult (lines 16-31)                                          *)

SumFields == {"accuracy", "answer_log_probability", "quantization_error",
              "key_quantization_error", "value_quantization_error",
              "attention_error", "logit_error"}
TokenFields == {"average_n_bits", "key_average_n_bits", "value_average_n_bits",
                "average_size", "key_average_size", "value_average_size"}
ResultFields == SumFields \cup TokenFields \cup {"accuracy_confidence"}

EvaluationResult == [f \in ResultFields |-> Zero]

----------------------------------------------------------------------------
(* TensorErrorMetrics (lines 62-66).  A tensor is a tuple of integers.     *)

RECURSIVE SumSq(_, _, _)
SumSq(t1, t2, i) ==
    IF i > Len(t1) THEN 0
    ELSE (t1[i] - t2[i]) * (t1[i] - t2[i]) + SumSq(t1, t2, i + 1)

CalcTensorError(tensor1, tensor2) == Rat(SumSq(tensor1, tensor2, 1), Len(tensor1))

Min(a, b) == IF a < b THEN a ELSE b

\* zip(attention1, attention2): pairs up to the shorter argument
Zip(a, b) == [i \in 1..Min(Len(a), Len(b)) |-> <<a[i], b[i]>>]

RECURSIVE SumTensorErrors(_, _)
SumTensorErrors(pairs, i) ==
    IF i > Len(pairs) THEN Zero
    ELSE RAdd(CalcTensorError(pairs[i][1], pairs[i][2]), SumTensorErrors(pairs, i + 1))

Raise(e) == [ok |-> FALSE, error |-> e]
Return(v) == [ok |-> TRUE, value |-> v]

CalcAttentionError(attention1, attention2) ==
    IF Len(attention1) = 0 THEN Raise("ZeroDivisionError")
    ELSE Return(RDivInt(SumTensorErrors(Zip(attention1, attention2), 1), Len(attention1)))

----------------------------------------------------------------------------
(* The choice scan of _evaluate_single (lines 92-101).  A choice carries   *)
(* the two log-probability terms of lines 94-95 and its choice_len.        *)

ChoiceScore(c) == Rat(c.first + c.rest, c.len)

ScanStart == [max_log_probability |-> None, max_choice_idx |-> None,
              answer_log_probability |-> None]

\* the scan with >= in place of > at line 99: a later equal score takes over
ScanStepLastWins(st, choice_idx, c, answer_idx) ==
    LET quantized_log_probability == ChoiceScore(c)
        a == IF choice_idx = answer_idx THEN quantized_log_probability
             ELSE st.answer_log_probability
    IN  IF st.max_log_probability = None
           \/ ~RGt(st.max_log_probability, quantized_log_probability)
        THEN [max_log_probability |-> quantized_log_probability,
              max_choice_idx |-> Some(choice_idx),
              answer_log_probability |-> a]
        ELSE [st EXCEPT !.answer_log_probability = a]

ScanStep(st, choice_idx, c, answer_idx) ==
    LET quantized_log_probability == ChoiceScore(c)
        a == IF choice_idx = answer_idx THEN quantized_log_probability
             ELSE st.answer_log_probability
    IN  IF st.max_log_probability = None
           \/ RGt(quantized_log_probability, st.max_log_probability)
        THEN [max_log_probability |-> quantized_log_probability,
              max_choice_idx |-> Some(choice_idx),
              answer_log_probability |-> a]
        ELSE [st EXCEPT !.answer_log_probability = a]

RECURSIVE ScanFrom(_, _, _, _)
ScanFrom(choices, answer_idx, choice_idx, st) ==
    IF choice_idx >= Len(choices) THEN st
    ELSE ScanFrom(choices, answer_idx, choice_idx + 1,
                  ScanStep(st, choice_idx, choices[choice_idx + 1], answer_idx))

ScanChoices(choices, answer_idx) == ScanFrom(choices, answer_idx, 0, ScanStart)

SingleAccuracy(max_choice_idx, answer_idx) ==
    IF max_choice_idx = Some(answer_idx) THEN One ELSE Zero

----------------------------------------------------------------------------
(* _evaluate_single (lines 68-126).  A question record carries the         *)
(* Question's attributes and what the model and the two quantizers answer  *)
(* for it: the caches before and after quantization, the attention blocks  *)
(* and logits of both forward passes, the achieved bit widths and sizes.   *)

Halve(a, b) == RDivInt(RAdd(a, b), 2)

EvaluateSingle(i, question) ==
    LET scan == ScanChoices(question.choices, question.answer_idx)
        key_quantization_error ==
            CalcTensorError(question.key_cache, question.quantized_key_cache)
        value_quantization_error ==
            CalcTensorError(question.value_cache, question.quantized_value_cache)
        attention_error ==
            CalcAttentionError(question.attentions, question.quantized_attentions)
        logit_error == CalcTensorError(question.logits, question.quantized_logits)
    IN  IF ~attention_error.ok THEN attention_error
        ELSE Return(
          [accuracy |-> SingleAccuracy(scan.max_choice_idx, question.answer_idx),
           accuracy_confidence |-> Zero,
           answer_log_probability |-> scan.answer_log_probability,
           quantization_error |-> Halve(key_quantization_error, value_quantization_error),
           key_quantization_error |-> key_quantization_error,
           value_quantization_error |-> value_quantization_error,
           attention_error |-> attention_error.value,
           logit_error |-> logit_error,
           average_size |-> Halve(question.key_average_size, question.value_average_size),
           key_average_size |-> question.key_average_size,
           value_average_size |-> question.value_average_size,
           average_n_bits |-> Halve(question.key_average_n_bits, question.value_average_n_bits),
           key_average_n_bits |-> question.key_average_n_bits,
           value_average_n_bits |-> question.value_average_n_bits])

----------------------------------------------------------------------------
(* evaluate (lines 128-164)                                                *)

\* the accumulation with a missing answer_log_probability counted as 0.0
AccumulateNoneAsZero(acc, n_acc, single_result, n_tokens) ==
    Return(
      [result |->
         [f \in ResultFields |->
            IF f = "answer_log_probability" /\ single_result[f] = None THEN acc[f]
            ELSE IF f \in SumFields THEN RAdd(acc[f], single_result[f])
            ELSE IF f \in TokenFields
                 THEN RAdd(acc[f], RMulInt(single_result[f], n_tokens))
                 ELSE acc[f]],
       total_tokens |-> n_acc + n_tokens])

\* the accumulation with the n_tokens factor of lines 143-148 left out
AccumulateUnweighted(acc, n_acc, single_result, n_tokens) ==
    IF single_result.answer_log_probability = None THEN Raise("TypeError")
    ELSE Return(
      [result |->
         [f \in ResultFields |->
            IF f \in SumFields \cup TokenFields THEN RAdd(acc[f], single_result[f])
            ELSE acc[f]],
       total_tokens |-> n_acc + n_tokens])

\* lines 134-148: adding None to a float raises TypeError at line 137
Accumulate(acc, n_acc, single_result, n_tokens) ==
    IF single_result.answer_log_probability = None THEN Raise("TypeError")
    ELSE Return(
      [result |->
         [f \in ResultFields |->
            IF f \in SumFields THEN RAdd(acc[f], single_result[f])
            ELSE IF f \in TokenFields
                 THEN RAdd(acc[f], RMulInt(single_result[f], n_tokens))
                 ELSE acc[f]],
       total_tokens |-> n_acc + n_tokens])

\* line 151, from the accuracy already divided at line 149
Confidence(accuracy, n) ==
    TimesSqrt(Z95, RDivInt(RMul(accuracy, RSub(One, accuracy)), n))

\* the finalization with lines 149 and 151 swapped: the interval is taken
\* from the count of correct answers, not from the proportion
FinalizeFromCount(acc, n_acc, n) ==
    IF n = 0 \/ n_acc = 0 THEN Raise("ZeroDivisionError")
    ELSE Return(
           [f \in ResultFields |->
              IF f = "accuracy_confidence" THEN Confidence(acc.accuracy, n)
              ELSE IF f \in SumFields THEN RDivInt(acc[f], n)
              ELSE RDivInt(acc[f], n_acc)])

\* lines 149-164
Finalize(acc, n_acc, n) ==
    IF n = 0 \/ n_acc = 0 THEN Raise("ZeroDivisionError")
    ELSE LET accuracy == RDivInt(acc.accuracy, n)
         IN  Return(
               [f \in ResultFields |->
                  IF f = "accuracy" THEN accuracy
                  ELSE IF f = "accuracy_confidence" THEN Confidence(accuracy, n)
                  ELSE IF f \in SumFields THEN RDivInt(acc[f], n)
                  ELSE RDivInt(acc[f], n_acc)])

RECURSIVE EvaluateFrom(_, _, _, _)
EvaluateFrom(questions, i, acc, n_acc) ==
    IF i >= Len(questions) THEN Finalize(acc, n_acc, Len(questions))
    ELSE LET question == questions[i + 1]
             single_result == EvaluateSingle(i, question)
             next == IF single_result.ok
                     THEN Accumulate(acc, n_acc, single_result.value,
                                     question.question_length)
                     ELSE single_result
         IN  IF ~next.ok THEN next
             ELSE EvaluateFrom(questions, i + 1, next.value.result,
                               next.value.total_tokens)

Evaluate(questions) == EvaluateFrom(questions, 0, EvaluationResult, 0)

----------------------------------------------------------------------------
(* Inputs.                                                                 *)

MaxChoices == 3
MaxLayers == 3
MaxQuestions == 3

TuplesUpTo(S, n) == UNION {[1..k -> S] : k \in 0..n}

Choice(first, rest, len) == [first |-> first, rest |-> rest, len |-> len]

\* scores -1, -2, -2 (as -4/2) and -3
ScanChoiceSet == {Choice(-1, 0, 1), Choice(-2, 0, 1), Choice(-1, -3, 2), Choice(-3, -3, 2)}

Tensors == {<<0, 0>>, <<1, 0>>, <<1, 2>>}

\* what the model and the quantizers answer for a question
ResponseA ==
    [key_cache |-> <<1, 2>>, quantized_key_cache |-> <<1, 1>>,
     value_cache |-> <<0, 2>>, quantized_value_cache |-> <<0, 0>>,
     attentions |-> << <<1, 0>>, <<0, 1>> >>,
     quantized_attentions |-> << <<0, 0>>, <<0, 1>> >>,
     logits |-> <<3, 1>>, quantized_logits |-> <<2, 1>>,
     key_average_n_bits |-> Rat(4, 1), value_average_n_bits |-> Rat(2, 1),
     key_average_size |-> Rat(3, 1), value_average_size |-> Rat(1, 1)]

ResponseB ==
    [key_cache |-> <<1, 2>>, quantized_key_cache |-> <<1, 2>>,
     value_cache |-> <<0, 2>>, quantized_value_cache |-> <<0, 1>>,
     attentions |-> << <<1, 0>>, <<0, 1>> >>,
     quantized_attentions |-> << <<1, 0>>, <<0, 1>> >>,
     logits |-> <<3, 1>>, quantized_logits |-> <<1, 1>>,
     key_average_n_bits |-> Rat(8, 1), value_average_n_bits |-> Rat(8, 1),
     key_average_size |-> Rat(7, 1), value_average_size |-> Rat(5, 1)]

Question(question_length, choices, answer_idx, r) ==
    [question_length |-> question_length, choices |-> choices,
     answer_idx |-> answer_idx,
     key_cache |-> r.key_cache, quantized_key_cache |-> r.quantized_key_cache,
     value_cache |-> r.value_cache, quantized_value_cache |-> r.quantized_value_cache,
     attentions |-> r.attentions, quantized_attentions |-> r.quantized_attentions,
     logits |-> r.logits, quantized_logits |-> r.quantized_logits,
     key_average_n_bits |-> r.key_average_n_bits,
     value_average_n_bits |-> r.value_average_n_bits,
     key_average_size |-> r.key_average_size,
     value_average_size |-> r.value_average_size]

TwoChoices == <<Choice(-1, 0, 1), Choice(-2, 0, 1)>>

EvalQuestions ==
    {Question(n, TwoChoices, a, r) : n \in {10, 30}, a \in {0, 1},
                                     r \in {ResponseA, ResponseB}}

----------------------------------------------------------------------------
(* The fingerprint (lines 52-60) and the JSON file (lines 168-169, 181-182) *)

Version == "v1"
ModelName == "llama"

\* A quantizer: its level attribute and its params mapping.
Quantizer(level) == [level |-> level, params |-> [level |-> level, n_bits |-> 4]]
Quantizers == {Quantizer("token"), Quantizer("layer")}

\* the fingerprint with the key quantizer's params under both quantizer keys
ParamsKeyTwice(e) ==
    [version |-> e.version,
     model_name |-> e.model_name,
     question_count |-> Len(e.questions),
     key_quantizer |-> e.key_quantizer.params,
     value_quantizer |-> e.key_quantizer.params]

Params(e) ==
    [version |-> e.version,
     model_name |-> e.model_name,
     question_count |-> Len(e.questions),
     key_quantizer |-> e.key_quantizer.params,
     value_quantizer |-> e.value_quantizer.params]

\* JSON tokens as json.dump writes them and json.load reads them
JsonNumber(x) == [kind |-> "number", repr |-> x]
JsonString(x) == [kind |-> "string", text |-> x]

DumpQuantizerParams(p) == [level |-> JsonString(p.level), n_bits |-> JsonNumber(p.n_bits)]
LoadQuantizerParams(j) == [level |-> j.level.text, n_bits |-> j.n_bits.repr]

DumpParams(p) ==
    [version |-> JsonString(p.version),
     model_name |-> JsonString(p.model_name),
     question_count |-> JsonNumber(p.question_count),
     key_quantizer |-> DumpQuantizerParams(p.key_quantizer),
     value_quantizer |-> DumpQuantizerParams(p.value_quantizer)]

LoadParams(j) ==
    [version |-> j.version.text,
     model_name |-> j.model_name.text,
     question_count |-> j.question_count.repr,
     key_quantizer |-> LoadQuantizerParams(j.key_quantizer),
     value_quantizer |-> LoadQuantizerParams(j.value_quantizer)]

DumpResults(d) == [f \in DOMAIN d |-> JsonNumber(d[f])]
LoadResults(j) == [f \in DOMAIN j |-> j[f].repr]

\* json.dump(cached_results, f) and json.load(f)
JsonDump(entries) ==
    [i \in 1..Len(entries) |->
       [params |-> DumpParams(entries[i].params),
        results |-> DumpResults(entries[i].results)]]
JsonLoad(doc) ==
    [i \in 1..Len(doc) |->
       [params |-> LoadParams(doc[i].params),
        results |-> LoadResults(doc[i].results)]]

\* asdict(result), and EvaluationResult(**entry["results"])
AsDict(r) == [f \in ResultFields |-> r[f]]
\* EvaluationResult() in place of EvaluationResult(**entry["results"])
FromDictDefaults(d) == EvaluationResult
FromDict(d) == [f \in ResultFields |-> IF f \in DOMAIN d THEN d[f] ELSE Zero]

NoFile == [exists |-> FALSE, records |-> <<>>]
File(doc) == [exists |-> TRUE, records |-> doc]

\* lines 170-172: the first entry whose params equal the fingerprint, or None
RECURSIVE LookupFrom(_, _, _)
LookupFrom(entries, params, i) ==
    IF i > Len(entries) THEN None
    ELSE IF entries[i].params = params THEN Some(FromDict(entries[i].results))
    ELSE LookupFrom(entries, params, i + 1)

\* the lookup loop without its early return: the last match is kept
RECURSIVE LookupLastFrom(_, _, _, _)
LookupLastFrom(entries, params, i, found) ==
    IF i > Len(entries) THEN found
    ELSE LookupLastFrom(entries, params, i + 1,
                        IF entries[i].params = params
                        THEN Some(FromDict(entries[i].results)) ELSE found)

LookupLast(entries, params) == LookupLastFrom(entries, params, 1, None)

Lookup(entries, params) == LookupFrom(entries, params, 1)

\* the new record alone, the loaded ones dropped
AppendEntryAlone(entries, params, r) == <<[params |-> params, results |-> AsDict(r)]>>

\* lines 176-179
AppendEntry(entries, params, r) ==
    Append(entries, [params |-> params, results |-> AsDict(r)])

\* lines 48-50
ConstructionAsserts(key_quantizer, value_quantizer, draw_cache_insights) ==
    draw_cache_insights => (key_quantizer.level = "token" /\ value_quantizer.level = "token")

\* the condition of line 80 without idx == 0
DrawEnabledAnyIndex(e, i) == e.enable_draw_cache_insights

\* line 80
DrawEnabled(e, i) == e.enable_draw_cache_insights /\ i = 0

----------------------------------------------------------------------------
(* Inputs of the cached evaluation.                                        *)

MaxStore == 2

NoError == "none"
CachePath == Some("cache.json")

QGood == Question(2, TwoChoices, 0, ResponseA)
QOther == Question(3, TwoChoices, 1, ResponseB)
\* answer_idx matches no choice index
QBadIdx == Question(3, TwoChoices, 2, ResponseA)
\* no choices at all
QNoChoices == Question(1, <<>>, 0, ResponseB)

Corpora == {<<QGood>>, <<QOther>>, <<QGood, QOther>>, <<QBadIdx, QGood>>,
            <<QGood, QNoChoices>>}

\* A file left by earlier runs that holds one fingerprint twice.
StaleParams ==
    [version |-> Version, model_name |-> ModelName, question_count |-> 1,
     key_quantizer |-> Quantizer("token").params,
     value_quantizer |-> Quantizer("token").params]
StaleFile ==
    File(JsonDump(<<[params |-> StaleParams, results |-> AsDict(EvaluationResult)],
                    [params |-> StaleParams,
                     results |-> AsDict([EvaluationResult EXCEPT !.accuracy = One])]>>))

InitStores == {NoFile, File(<<>>), StaleFile}

----------------------------------------------------------------------------
(* The cached evaluation as the steps of its single thread.                *)

pureVars == <<scanVars, attnVars, evalVars>>

ResetCall ==
    /\ idx' = 0
    /\ result' = EvaluationResult
    /\ total_tokens' = 0
    /\ forwardCalls' = 0
    /\ quantizeCalls' = 0
    /\ renderCalls' = 0
    /\ store0' = store

PureIdle ==
    /\ scanIn = None /\ scanOut = None
    /\ attnIn = None /\ attnOut = None
    /\ evalIn = None /\ evalOut = None

MainIdle(s) ==
    /\ store = s
    /\ config = None
    /\ ev = None
    /\ pc = "idle"
    /\ cache_file = None
    /\ cached_results = <<>>
    /\ idx = 0
    /\ result = EvaluationResult
    /\ total_tokens = 0
    /\ ret = None
    /\ err = NoError
    /\ hit = FALSE
    /\ forwardCalls = 0
    /\ quantizeCalls = 0
    /\ renderCalls = 0
    /\ store0 = s
    /\ firstRuns = {}

Init == (\E s \in InitStores : MainIdle(s)) /\ PureIdle

\* Evaluator(...) (lines 35-50)
Construct ==
    /\ pc = "idle"
    /\ \E questions \in Corpora, key_quantizer \in Quantizers,
          value_quantizer \in Quantizers, draw_cache_insights \in BOOLEAN :
         /\ config' = [questions |-> questions, key_quantizer |-> key_quantizer,
                       value_quantizer |-> value_quantizer,
                       draw_cache_insights |-> draw_cache_insights]
         /\ IF ConstructionAsserts(key_quantizer, value_quantizer, draw_cache_insights)
            THEN /\ ev' = [version |-> Version, model_name |-> ModelName,
                           questions |-> questions,
                           key_quantizer |-> key_quantizer,
                           value_quantizer |-> value_quantizer,
                           enable_draw_cache_insights |-> draw_cache_insights]
                 /\ pc' = "constructed"
                 /\ err' = NoError
            ELSE /\ ev' = None
                 /\ pc' = "construct_failed"
                 /\ err' = "AssertionError"
    /\ cache_file' = None
    /\ cached_results' = <<>>
    /\ ret' = None
    /\ hit' = FALSE
    /\ ResetCall
    /\ UNCHANGED <<store, firstRuns, pureVars>>

\* cached_evaluate up to the start of evaluate (lines 166-175)
CachedEvaluate ==
    /\ pc \in {"constructed", "returned", "raised"}
    /\ ev # None
    /\ \E cf \in {None, CachePath} :
         LET found == IF cf # None /\ store.exists
                      THEN Lookup(JsonLoad(store.records), Params(ev))
                      ELSE None
         IN  /\ \/ cf = None
                \/ ~store.exists
                \/ Len(store.records) < MaxStore
                \/ found # None
             /\ cache_file' = cf
             /\ ResetCall
             /\ IF found # None
                THEN /\ cached_results' = JsonLoad(store.records)
                     /\ hit' = TRUE
                     /\ ret' = found[1]
                     /\ pc' = "returned"
                ELSE /\ cached_results' =
                          IF cf # None /\ store.exists THEN JsonLoad(store.records)
                          ELSE <<>>
                     /\ hit' = FALSE
                     /\ ret' = None
                     /\ pc' = "loop"
    /\ err' = NoError
    /\ UNCHANGED <<store, config, ev, firstRuns, pureVars>>

\* line 72: the forward pass before quantization
Forward ==
    /\ pc = "loop"
    /\ idx < Len(ev.questions)
    /\ forwardCalls' = forwardCalls + 1
    /\ pc' = "forwarded"
    /\ UNCHANGED <<store, config, ev, cache_file, cached_results, idx, result,
                   total_tokens, ret, err, hit, quantizeCalls, renderCalls,
                   store0, firstRuns, pureVars>>

\* line 72 on a question without choices: input_ids has no rows, and the
\* model may reject it; if it does not, the question fails at line 137
ForwardRaise ==
    /\ pc = "loop"
    /\ idx < Len(ev.questions)
    /\ Len(ev.questions[idx + 1].choices) = 0
    /\ forwardCalls' = forwardCalls + 1
    /\ err' = "RuntimeError"
    /\ pc' = "raised"
    /\ UNCHANGED <<store, config, ev, cache_file, cached_results, idx, result,
                   total_tokens, ret, hit, quantizeCalls, renderCalls,
                   store0, firstRuns, pureVars>>

\* lines 74-79: both quantizers quantize their cache
Quantize ==
    /\ pc = "forwarded"
    /\ quantizeCalls' = quantizeCalls + 2
    /\ pc' = "quantized"
    /\ UNCHANGED <<store, config, ev, cache_file, cached_results, idx, result,
                   total_tokens, ret, err, hit, forwardCalls, renderCalls,
                   store0, firstRuns, pureVars>>

\* lines 80-86 and 185-211: draw_cache_insights on the four caches
DrawCacheInsights ==
    /\ pc = "quantized"
    /\ DrawEnabled(ev, idx)
    /\ renderCalls' = renderCalls + 1
    /\ pc' = "drawn"
    /\ UNCHANGED <<store, config, ev, cache_file, cached_results, idx, result,
                   total_tokens, ret, err, hit, forwardCalls, quantizeCalls,
                   store0, firstRuns, pureVars>>

\* line 88: the forward pass over the quantized cache
QuantizedForward ==
    /\ pc \in {"quantized", "drawn"}
    /\ pc = "quantized" => ~DrawEnabled(ev, idx)
    /\ forwardCalls' = forwardCalls + 1
    /\ pc' = "scoring"
    /\ UNCHANGED <<store, config, ev, cache_file, cached_results, idx, result,
                   total_tokens, ret, err, hit, quantizeCalls, renderCalls,
                   store0, firstRuns, pureVars>>

\* lines 89-126 and 134-148: the question's result is added to the accumulator
ScoreAccumulate ==
    /\ pc = "scoring"
    /\ LET question == ev.questions[idx + 1]
           single_result == EvaluateSingle(idx, question)
           next == IF single_result.ok
                   THEN Accumulate(result, total_tokens, single_result.value,
                                   question.question_length)
                   ELSE single_result
       IN  /\ next.ok
           /\ result' = next.value.result
           /\ total_tokens' = next.value.total_tokens
           /\ idx' = idx + 1
           /\ pc' = "loop"
    /\ UNCHANGED <<store, config, ev, cache_file, cached_results, ret, err, hit,
                   forwardCalls, quantizeCalls, renderCalls, store0, firstRuns,
                   pureVars>>

\* the same lines when they raise: the exception leaves cached_evaluate
ScoreRaise ==
    /\ pc = "scoring"
    /\ LET question == ev.questions[idx + 1]
           single_result == EvaluateSingle(idx, question)
           next == IF single_result.ok
                   THEN Accumulate(result, total_tokens, single_result.value,
                                   question.question_length)
                   ELSE single_result
       IN  /\ ~next.ok
           /\ err' = next.error
           /\ pc' = "raised"
    /\ UNCHANGED <<store, config, ev, cache_file, cached_results, idx, result,
                   total_tokens, ret, hit, forwardCalls, quantizeCalls,
                   renderCalls, store0, firstRuns, pureVars>>

\* lines 149-164 and 176-183: finalize, append, rewrite the file, return
Complete ==
    /\ pc = "loop"
    /\ idx >= Len(ev.questions)
    /\ LET final == Finalize(result, total_tokens, Len(ev.questions))
           entries == AppendEntry(cached_results, Params(ev), final.value)
       IN  /\ final.ok
           /\ result' = final.value
           /\ cached_results' = entries
           /\ store' = IF cache_file # None THEN File(JsonDump(entries)) ELSE store
           /\ firstRuns' = IF cache_file # None
                           THEN firstRuns \cup {<<Params(ev), final.value>>}
                           ELSE firstRuns
           /\ ret' = final.value
           /\ pc' = "returned"
    /\ UNCHANGED <<config, ev, cache_file, idx, total_tokens, err, hit,
                   forwardCalls, quantizeCalls, renderCalls, store0, pureVars>>

\* The run ends, by return or by exception: the objects of the process are
\* gone and only the backing file remains for the next run.
Exit ==
    /\ pc \in {"construct_failed", "returned", "raised"}
    /\ config' = None
    /\ ev' = None
    /\ pc' = "idle"
    /\ err' = NoError
    /\ cache_file' = None
    /\ cached_results' = <<>>
    /\ ret' = None
    /\ hit' = FALSE
    /\ ResetCall
    /\ UNCHANGED <<store, firstRuns, pureVars>>

Next ==
    \/ Construct
    \/ Exit
    \/ CachedEvaluate
    \/ Forward
    \/ ForwardRaise
    \/ Quantize
    \/ DrawCacheInsights
    \/ QuantizedForward
    \/ ScoreAccumulate
    \/ ScoreRaise
    \/ Complete

Spec == Init /\ [][Next]_vars

----------------------------------------------------------------------------
(* The choice scan on its own: every choice list up to MaxChoices and      *)
(* every answer index, in range or not.                                    *)

InitScan ==
    /\ MainIdle(NoFile)
    /\ scanIn \in [choices : TuplesUpTo(ScanChoiceSet, MaxChoices),
                   answer_idx : 0..MaxChoices]
    /\ scanOut = None
    /\ attnIn = None /\ attnOut = None
    /\ evalIn = None /\ evalOut = None

RunScan ==
    /\ scanOut = None
    /\ LET scan == ScanChoices(scanIn.choices, scanIn.answer_idx)
       IN  scanOut' = [max_choice_idx |-> scan.max_choice_idx,
                       max_log_probability |-> scan.max_log_probability,
                       answer_log_probability |-> scan.answer_log_probability,
                       accuracy |-> SingleAccuracy(scan.max_choice_idx,
                                                   scanIn.answer_idx)]
    /\ UNCHANGED <<mainVars, scanIn, attnVars, evalVars>>

NextScan == RunScan

SpecScan == InitScan /\ [][NextScan]_vars

(* _calc_attention_error on its own: every pair of tensor sequences up to  *)
(* MaxLayers, of equal length or not.                                      *)

InitAttn ==
    /\ MainIdle(NoFile)
    /\ attnIn \in [attention1 : TuplesUpTo(Tensors, MaxLayers),
                   attention2 : TuplesUpTo(Tensors, MaxLayers)]
    /\ attnOut = None
    /\ scanIn = None /\ scanOut = None
    /\ evalIn = None /\ evalOut = None

RunAttn ==
    /\ attnOut = None
    /\ attnOut' = CalcAttentionError(attnIn.attention1, attnIn.attention2)
    /\ UNCHANGED <<mainVars, scanVars, attnIn, evalVars>>

NextAttn == RunAttn

SpecAttn == InitAttn /\ [][NextAttn]_vars

(* evaluate on its own: every corpus of 1..MaxQuestions questions.         *)

InitEval ==
    /\ MainIdle(NoFile)
    /\ evalIn \in (TuplesUpTo(EvalQuestions, MaxQuestions) \ {<<>>})
    /\ evalOut = None
    /\ scanIn = None /\ scanOut = None
    /\ attnIn = None /\ attnOut = None

RunEval ==
    /\ evalOut = None
    /\ evalOut' = Evaluate(evalIn)
    /\ UNCHANGED <<mainVars, scanVars, attnVars, evalIn>>

NextEval == RunEval

SpecEval == InitEval /\ [][NextEval]_vars

----------------------------------------------------------------------------
(* Properties of the choice scan.                                          *)

ScanScore(i) == ChoiceScore(scanIn.choices[i + 1])
ScanIndices == 0..(Len(scanIn.choices) - 1)
ScanMaxIndices ==
    {i \in ScanIndices : \A j \in ScanIndices : ~RGt(ScanScore(j), ScanScore(i))}
ScanLowestMax == CHOOSE i \in ScanMaxIndices : \A j \in ScanMaxIndices : i <= j

\* C7: with at least one choice the predicted choice is the lowest index
\* among those holding the maximum score, and the per-question accuracy is
\* 1.0 exactly when that index is answer_idx (0.0 otherwise).
ArgmaxTieBreak ==
    (scanOut # None /\ Len(scanIn.choices) >= 1) =>
        /\ scanOut.max_choice_idx = Some(ScanLowestMax)
        /\ scanOut.accuracy \in {Zero, One}
        /\ scanOut.accuracy = One <=> ScanLowestMax = scanIn.answer_idx

\* three choices with one score, held by every index, and index 0 predicted
ArgmaxTieWitness ==
    /\ scanOut # None
    /\ Len(scanIn.choices) = 3
    /\ ScanMaxIndices = {0, 1, 2}
    /\ scanIn.choices[1] # scanIn.choices[2]
    /\ scanOut.max_choice_idx = Some(0)

----------------------------------------------------------------------------
(* Properties of _calc_attention_error.                                    *)

AttnPairwiseMean ==
    LET n == Len(attnIn.attention1)
    IN  RDivInt(SumTensorErrors([i \in 1..n |-> <<attnIn.attention1[i],
                                                  attnIn.attention2[i]>>], 1), n)

\* C8: on sequences of different lengths the call fails and returns no
\* value; on sequences of equal length n >= 1 it returns the sum of the
\* pairwise tensor errors divided by n.
AttentionErrorLengthChecked ==
    attnOut # None =>
        /\ Len(attnIn.attention1) # Len(attnIn.attention2) => ~attnOut.ok
        /\ (Len(attnIn.attention1) = Len(attnIn.attention2)
            /\ Len(attnIn.attention1) >= 1) =>
               (attnOut.ok /\ attnOut.value = AttnPairwiseMean)

----------------------------------------------------------------------------
(* Properties of evaluate.                                                 *)

SingleOf(q) == EvaluateSingle(0, q).value
EvalN == Len(evalIn)
EvalCorrect == Cardinality({i \in 1..EvalN : SingleOf(evalIn[i]).accuracy = One})
EvalTokens == LET RECURSIVE T(_)
                  T(i) == IF i > EvalN THEN 0 ELSE evalIn[i].question_length + T(i + 1)
              IN  T(1)

\* sum over the questions of the per-question field, times question_length
\* when weighted
EvalSum(f, weighted) ==
    LET RECURSIVE S(_)
        S(i) == IF i > EvalN THEN Zero
                ELSE RAdd(RMulInt(SingleOf(evalIn[i])[f],
                                  IF weighted THEN evalIn[i].question_length ELSE 1),
                          S(i + 1))
    IN  S(1)

\* C5: with k of N questions answered correctly, accuracy is k/N and
\* accuracy_confidence is 1.96*sqrt(p(1-p)/N) for p = k/N, that is
\* 1.96*sqrt(k(N-k)/N^3), which is 0 when k = 0 or k = N.
AccuracyAggregation ==
    evalOut # None =>
        /\ evalOut.ok
        /\ \A q \in {evalIn[i] : i \in 1..EvalN} : SingleOf(q).accuracy \in {Zero, One}
        /\ evalOut.value.accuracy = Rat(EvalCorrect, EvalN)
        /\ evalOut.value.accuracy_confidence =
              TimesSqrt(Z95, Rat(EvalCorrect * (EvalN - EvalCorrect),
                                 EvalN * EvalN * EvalN))
        /\ EvalCorrect \in {0, EvalN} => evalOut.value.accuracy_confidence = Zero

\* two of three correct: a proper proportion and a non-zero interval
AccuracyWitness ==
    /\ evalOut # None
    /\ EvalN = 3
    /\ EvalCorrect = 2
    /\ evalOut.value.accuracy = Rat(2, 3)
    /\ evalOut.value.accuracy_confidence # Zero

\* C6: the size and bit-width fields are sums weighted by question_length
\* over the total question_length; accuracy, answer_log_probability and
\* the error fields are plain sums over the question count.
TokenWeightedAveraging ==
    evalOut # None =>
        /\ evalOut.ok
        /\ \A f \in TokenFields :
              evalOut.value[f] = RDivInt(EvalSum(f, TRUE), EvalTokens)
        /\ \A f \in SumFields :
              evalOut.value[f] = RDivInt(EvalSum(f, FALSE), EvalN)

\* prefix lengths 10 and 30 with sizes 2.0 and 6.0: 5.0, not the plain mean 4.0
TokenWeightedWitness ==
    /\ evalOut # None
    /\ EvalN = 2
    /\ evalIn[1].question_length = 10
    /\ evalIn[2].question_length = 30
    /\ SingleOf(evalIn[1]).average_size = Rat(2, 1)
    /\ SingleOf(evalIn[2]).average_size = Rat(6, 1)
    /\ evalOut.value.average_size = Rat(5, 1)
    /\ SingleOf(evalIn[1]).logit_error # SingleOf(evalIn[2]).logit_error

----------------------------------------------------------------------------
(* Properties of the cached evaluation.                                    *)

InCall == pc \in {"loop", "forwarded", "quantized", "drawn", "scoring",
                  "returned", "raised"}

StoredRecord(params, r) ==
    [params |-> DumpParams(params), results |-> DumpResults(AsDict(r))]

\* the first runs with the current fingerprint whose record was in the file
\* when the current call began
EarlierFirstRuns ==
    {r \in firstRuns :
        /\ r[1] = Params(ev)
        /\ \E i \in 1..Len(store0.records) : store0.records[i] = StoredRecord(r[1], r[2])}

\* C1: once a miss with a cache location has evaluated and written the
\* file, a call with the same location by an evaluator with the same
\* parameters returns that first result, field for field, and makes no
\* model forward call.
CacheRoundTrip ==
    (InCall /\ cache_file # None /\ EarlierFirstRuns # {}) =>
        /\ pc = "returned"
        /\ hit
        /\ forwardCalls = 0
        /\ \A r \in EarlierFirstRuns : \A f \in ResultFields : ret[f] = r[2][f]

\* a hit on a record a first run wrote after evaluating two questions
CacheRoundTripWitness ==
    /\ pc = "returned"
    /\ hit
    /\ cache_file # None
    /\ EarlierFirstRuns # {}
    /\ Len(ev.questions) = 2
    /\ ret.accuracy # Zero
    /\ forwardCalls = 0

\* every stored fingerprint differs from the evaluator's in the key
\* quantizer's or in the value quantizer's params
QuantizersDiffer ==
    \A i \in 1..Len(store0.records) :
        LET p == LoadParams(store0.records[i].params)
        IN  \/ p.key_quantizer # ev.key_quantizer.params
            \/ p.value_quantizer # ev.value_quantizer.params

\* C2: an evaluator whose quantizer params differ from those of every
\* stored record misses: the call runs the full evaluation, two forward
\* calls per question, and returns what that evaluation computes.
MissOnParameterChange ==
    (InCall /\ QuantizersDiffer) =>
        /\ ~hit
        /\ pc # "returned" => ret = None
        /\ pc = "returned" =>
              /\ forwardCalls = 2 * Len(ev.questions)
              /\ forwardCalls > 0
              /\ ret = Evaluate(ev.questions).value

\* a miss beside a record that differs in the value quantizer alone
MissOnParameterChangeWitness ==
    /\ pc = "returned"
    /\ cache_file # None
    /\ QuantizersDiffer
    /\ forwardCalls > 0
    /\ \E i \in 1..Len(store0.records) :
          LET p == LoadParams(store0.records[i].params)
          IN  /\ p.key_quantizer = ev.key_quantizer.params
              /\ p.value_quantizer # ev.value_quantizer.params
              /\ p.question_count = Len(ev.questions)
              /\ ret # FromDict(LoadResults(store0.records[i].results))

\* positions of the stored records that carry the current fingerprint
Matches ==
    {i \in 1..Len(store0.records) : LoadParams(store0.records[i].params) = Params(ev)}
FirstMatch == CHOOSE i \in Matches : \A j \in Matches : i <= j

\* C3: with a cache location whose file exists, the call returns the result
\* of the lowest-position record carrying the current fingerprint, whatever
\* the results stored in it and in later records; it returns from the file
\* only on such a match.
FirstMatchLookup ==
    InCall =>
        /\ (cache_file # None /\ store0.exists /\ Matches # {}) =>
              /\ hit
              /\ pc = "returned"
              /\ \A f \in ResultFields :
                    ret[f] = store0.records[FirstMatch].results[f].repr
        /\ hit => (cache_file # None /\ store0.exists /\ Matches # {})

\* two records with one fingerprint and different results: the first is returned
FirstMatchWitness ==
    /\ pc = "returned"
    /\ hit
    /\ Cardinality(Matches) >= 2
    /\ \E i \in Matches :
          /\ i > FirstMatch
          /\ store0.records[i].results # store0.records[FirstMatch].results
    /\ ret = FromDict(LoadResults(store0.records[FirstMatch].results))

BadDiagnosticsConfig ==
    /\ config # None
    /\ config.draw_cache_insights
    /\ \/ config.key_quantizer.level # "token"
       \/ config.value_quantizer.level # "token"

\* C9: a configuration with diagnostics enabled and a non-token quantizer
\* fails at construction, so no forward call, quantization or render
\* happens for it; and a render happens only with diagnostics enabled at
\* question index 0, after that question's two quantize calls and first
\* forward call and before its second forward call.
DiagnosticsPrecondition ==
    /\ [](BadDiagnosticsConfig =>
            /\ pc = "construct_failed"
            /\ ev = None
            /\ forwardCalls = 0 /\ quantizeCalls = 0 /\ renderCalls = 0)
    /\ [][renderCalls' > renderCalls =>
            /\ ev.enable_draw_cache_insights
            /\ idx = 0
            /\ renderCalls = 0
            /\ quantizeCalls = 2 /\ quantizeCalls' = 2
            /\ forwardCalls = 1 /\ forwardCalls' = 1
            /\ pc = "quantized"]_vars
    /\ [](pc = "scoring" => forwardCalls = 2 * (idx + 1))

\* the render has happened once and the evaluation is at a later question
DiagnosticsWitness ==
    /\ renderCalls = 1
    /\ idx = 1
    /\ pc = "quantized"
    /\ ev.enable_draw_cache_insights

\* a question whose answer_idx is the index of none of its choices
Malformed(q) == q.answer_idx \notin 0..(Len(q.choices) - 1)
MalformedAt == {i \in 0..(Len(ev.questions) - 1) : Malformed(ev.questions[i + 1])}
FirstMalformed == CHOOSE i \in MalformedAt : \A j \in MalformedAt : i <= j

\* C10: a call that missed on a corpus holding a malformed question never
\* returns a result: it ends with the exception at the first such question,
\* no later question sees a forward call, and the file stays as it was when
\* the call began.
AbortWithoutPartialEffects ==
    /\ (InCall /\ ~hit /\ MalformedAt # {}) =>
          /\ pc # "returned"
          /\ ret = None
          /\ store = store0
          /\ idx <= FirstMalformed
          /\ forwardCalls <= 2 * (FirstMalformed + 1)
    /\ pc = "raised" =>
          /\ MalformedAt # {}
          /\ err # NoError
          /\ idx = FirstMalformed
          /\ forwardCalls > 2 * FirstMalformed

\* the first of two questions is malformed, the file existed with a record
AbortWitness ==
    /\ pc = "raised"
    /\ cache_file # None
    /\ Len(store0.records) >= 1
    /\ Len(ev.questions) = 2
    /\ FirstMalformed = 0
    /\ store = store0

====
